---- MODULE Spec2Model ----
(***************************************************************************)
(* The Kotlin tag recognizer of parsers/kotlin.c as a state machine.       *)
(*                                                                         *)
(* The input file is a sequence of one-character strings.  The character   *)
(* source (getcFromInputFile / ungetcToInputFile of read.h) is the record  *)
(* src = [pos, unget]: pos is the index of the next character of the file, *)
(* unget the stack of characters pushed back.  parse_token, parse_number   *)
(* and skip_until_eol always return and are operators; skip_comment_block  *)
(* and skip_open_close are loops that may not return, so each of their     *)
(* iterations is one action.  The driver loop of find_kotlin_tags is one   *)
(* action per dispatch branch.                                             *)
(***************************************************************************)
EXTENDS Integers, Sequences, FiniteSets, TLC

VARIABLES
    input,       \* the characters of the input file
    src,         \* the character source: [pos, unget]
    delimiters,  \* static int delimiters[128]
    pc,          \* where find_kotlin_tags stands
    ret,         \* the caller skip_comment_block returns to
    t,           \* struct Token t
    sub,         \* struct Token sub
    tags,        \* the tag entries handed to makeTagEntry, in order
    c,           \* skip_comment_block's flag c
    sk,          \* skip_open_close's locals: expected_close and the counters
    cstart,      \* history: src.pos when skip_comment_block was last entered
    cend,        \* history: src.pos when it last returned (0 while it runs)
    ntok,        \* history: the number of parse_token calls made so far
    Lang_kotlin, \* static langType Lang_kotlin
    run,         \* the host: which file of its session is being read
    prev_input,  \* history: the file read before this one
    prev_tags    \* history: the tag entries of the file read before this one

vars == <<input, src, delimiters, pc, ret, t, sub, tags, c, sk, cstart, cend,
          ntok, Lang_kotlin, run, prev_input, prev_tags>>

\* What a run of find_kotlin_tags leaves alone: the file, the process-wide
\* state, and the host's session.
Host == <<input, delimiters, Lang_kotlin, run, prev_input, prev_tags>>

\* ------------------------------------------------------------ characters

EOF == "EOF"

Lower == {"a","b","c","d","e","f","g","h","i","j","k","l","m",
          "n","o","p","q","r","s","t","u","v","w","x","y","z"}
Upper == {"A","B","C","D","E","F","G","H","I","J","K","L","M",
          "N","O","P","Q","R","S","T","U","V","W","X","Y","Z"}
Digits == {"0","1","2","3","4","5","6","7","8","9"}
Whitespace == {" ", "\r", "\n", "\t"}
Punct == {"(", ")", "{", "}", "[", "]", "<", ">", ".", ",", ";", ":", "$",
          "/", "*", "=", "+", "-", "_", "?", "@"}

\* The character codes 0..127 the model draws its inputs from.
Char == Lower \cup Upper \cup Digits \cup Whitespace \cup Punct

\* The characters of a Kotlin identifier: letters, digits, underscore.
IdentChar == Lower \cup Upper \cup Digits \cup {"_"}

RECURSIVE Str(_)
\* The text of a vString: its characters as one string.
Str(buf) == IF buf = <<>> THEN "" ELSE Head(buf) \o Str(Tail(buf))

\* ------------------------------------------------------------ tables

KEYWORD_NONE == "KEYWORD_NONE"

KotlinKeywordTable ==
    { [name |-> "package",   id |-> "keyword_package"],
      [name |-> "import",    id |-> "keyword_import"],
      [name |-> "class",     id |-> "keyword_class"],
      [name |-> "interface", id |-> "keyword_interface"],
      [name |-> "typealias", id |-> "keyword_typealias"],
      [name |-> "fun",       id |-> "keyword_fun"],
      [name |-> "val",       id |-> "keyword_val"],
      [name |-> "var",       id |-> "keyword_var"],
      [name |-> "object",    id |-> "keyword_object"],
      [name |-> "private",   id |-> "modifier_private"],
      [name |-> "protected", id |-> "modifier_protected"],
      [name |-> "public",    id |-> "modifier_public"],
      [name |-> "internal",  id |-> "modifier_internal"],
      [name |-> "sealed",    id |-> "modifier_sealed"],
      [name |-> "enum",      id |-> "modifier_enum"],
      [name |-> "abstract",  id |-> "modifier_abstract"],
      [name |-> "open",      id |-> "modifier_open"],
      [name |-> "override",  id |-> "modifier_override"],
      [name |-> "final",     id |-> "modifier_final"],
      [name |-> "suspend",   id |-> "modifier_suspend"],
      [name |-> "const",     id |-> "modifier_const"] }

\* The langType the host hands to initialize() for the Kotlin parser.
KotlinLangType == "Kotlin"

\* lookupKeyword of keyword.h: the code of a spelling of the table the host
\* has registered for the language, else KEYWORD_NONE.
lookupKeyword(text, language) ==
    IF language = KotlinLangType /\ \E k \in KotlinKeywordTable : k.name = text
    THEN (CHOOSE k \in KotlinKeywordTable : k.name = text).id
    ELSE KEYWORD_NONE

init_delimiters ==
    [ch \in Char |->
        IF ch \in {" ", "\r", "\n", "\t", ";", ",", "(", ")", "{", "}",
                   "<", ">", "."}
        THEN 1 ELSE 0]

\* ------------------------------------------------------------ character source

\* getcFromInputFile: a pushed-back character first, then the file.
getc(s) ==
    IF s.unget # <<>>
    THEN [ch |-> s.unget[Len(s.unget)],
          s  |-> [s EXCEPT !.unget = SubSeq(@, 1, Len(@) - 1)]]
    ELSE IF s.pos > Len(input)
         THEN [ch |-> EOF, s |-> s]
         ELSE [ch |-> input[s.pos], s |-> [s EXCEPT !.pos = @ + 1]]

\* ungetcToInputFile.
ungetc(s, ch) == [s EXCEPT !.unget = Append(@, ch)]

\* getInputFilePosition: the offset of the character the file delivered last.
getInputFilePosition(s) == s.pos - 1

\* getInputLineNumber: the line of the character the file delivered last.
getInputLineNumber(s) ==
    1 + Cardinality({i \in 1..(s.pos - 2) : input[i] = "\n"})

\* ------------------------------------------------------------ lexer
\* A loop of the code is a pair of definitions: x(s) reads a character and
\* x_of(g, ...) is the loop body on the character read, g = [ch, s].

\* F applied to the value of v: `int x = v; F(x)`.
With(F(_), v) == CHOOSE r \in {F(x) : x \in {v}} : TRUE

RECURSIVE number_int(_, _)
\* parse_number, first loop, on the character read: digits and underscores up
\* to a '.'.
number_int_of(g, buf) ==
    IF g.ch \in Digits \/ g.ch = "_" THEN number_int(g.s, Append(buf, g.ch))
    ELSE IF g.ch = "." THEN [s |-> g.s, buffer |-> Append(buf, g.ch), end |-> 0]
    ELSE [s |-> ungetc(g.s, g.ch), buffer |-> buf, end |-> 1]

number_int(s, buf) == With(LAMBDA g : number_int_of(g, buf), getc(s))

RECURSIVE number_frac(_, _)
\* parse_number, second loop, on the character read: the digits after the
\* '.', and a trailing f.
number_frac_of(g, buf) ==
    IF g.ch \in Digits \/ g.ch = "_" THEN number_frac(g.s, Append(buf, g.ch))
    ELSE IF g.ch = "f" THEN [s |-> g.s, buffer |-> Append(buf, g.ch)]
    ELSE [s |-> ungetc(g.s, g.ch), buffer |-> buf]

number_frac(s, buf) == With(LAMBDA g : number_frac_of(g, buf), getc(s))

\* parse_number after its first loop: if (end == 0) the second loop.
number_end(a) ==
    IF a.end = 0 THEN number_frac(a.s, a.buffer)
    ELSE [s |-> a.s, buffer |-> a.buffer]

parse_number(s, buf) == With(number_end, number_int(s, buf))

RECURSIVE first_char(_)
\* parse_token's first loop, on the character read: whitespace is skipped.
first_char_of(g) == IF g.ch \in Whitespace THEN first_char(g.s) ELSE g

first_char(s) == With(first_char_of, getc(s))

RECURSIVE scan_word(_, _)
\* parse_token's last loop, on the character read: characters up to a
\* delimiter, which is pushed back.
scan_word_of(g, buf) ==
    IF g.ch = EOF THEN [s |-> g.s, buffer |-> buf]
    ELSE IF g.ch \in DOMAIN delimiters /\ delimiters[g.ch] = 1
         THEN [s |-> ungetc(g.s, g.ch), buffer |-> buf]
         ELSE scan_word(g.s, Append(buf, g.ch))

scan_word(s, buf) == With(LAMBDA g : scan_word_of(g, buf), getc(s))

\* parse_token's switch over the first character.
single_char_token(first) ==
    CASE first = "(" -> "token_par_open"
      [] first = ")" -> "token_par_close"
      [] first = "{" -> "token_curly_open"
      [] first = "}" -> "token_curly_close"
      [] first = "[" -> "token_square_open"
      [] first = "]" -> "token_square_close"
      [] first = "." -> "token_dot"
      [] first = "," -> "token_comma"
      [] first = "<" -> "token_arrow_open"
      [] first = ">" -> "token_arrow_close"
      [] first = ";" -> "token_sem"
      [] first = ":" -> "token_colon"
      [] first = "$" -> "token_bax"
      [] OTHER -> "none"

Tok(kw, tk, line, fpos, buf) ==
    [keyword |-> kw, token |-> tk, line_number |-> line,
     file_position |-> fpos, buffer |-> buf]

\* A token that is no word: keyword_other, and the location taken when the
\* first character had been read (source s1).
Plain(tk, s1, buf) ==
    Tok("keyword_other", tk, getInputLineNumber(s1), getInputFilePosition(s1), buf)

\* slash_token pushing back the '/' as well as the character after it.
slash_token_ungets_both(s1, g2) ==
    IF g2.ch = "/" THEN [tok |-> Plain("token_comment_line", s1, <<>>), s |-> g2.s]
    ELSE IF g2.ch = "*"
         THEN [tok |-> Plain("token_comment_start", s1, <<>>), s |-> g2.s]
         ELSE [tok |-> Plain("token_other", s1, <<>>),
               s |-> ungetc(ungetc(g2.s, g2.ch), "/")]

\* parse_token, first == '/': the second character g2 decides.
slash_token(s1, g2) ==
    IF g2.ch = "/" THEN [tok |-> Plain("token_comment_line", s1, <<>>), s |-> g2.s]
    ELSE IF g2.ch = "*"
         THEN [tok |-> Plain("token_comment_start", s1, <<>>), s |-> g2.s]
         ELSE [tok |-> Plain("token_other", s1, <<>>), s |-> ungetc(g2.s, g2.ch)]

\* parse_token, a digit first: n is what parse_number returns.
number_token(s1, n) == [tok |-> Plain("token_number", s1, n.buffer), s |-> n.s]

\* parse_token's lookup of the word read: a keyword or an identifier.
word_kind(kw) == IF kw = KEYWORD_NONE THEN "token_identifier" ELSE "token_keyword"

\* parse_token, any other first character: w is what scan_word returns.
word_token(s1, w, kw) ==
    [tok |-> Tok(kw, word_kind(kw), getInputLineNumber(s1),
                 getInputFilePosition(s1), w.buffer),
     s |-> w.s]

\* parse_token once its first loop has read g = [ch, s] from source s0.
token_of(s0, g) ==
    IF g.ch = EOF THEN
        [tok |-> Tok("keyword_other", "token_eof", getInputLineNumber(s0),
                     getInputFilePosition(s0), <<>>),
         s |-> g.s]
    ELSE IF single_char_token(g.ch) # "none" THEN
        [tok |-> Plain(single_char_token(g.ch), g.s, <<>>), s |-> g.s]
    ELSE IF g.ch = "/" THEN With(LAMBDA g2 : slash_token(g.s, g2), getc(g.s))
    ELSE IF g.ch \in Digits THEN
        With(LAMBDA n : number_token(g.s, n), parse_number(g.s, <<g.ch>>))
    ELSE With(LAMBDA w : word_token(g.s, w, lookupKeyword(Str(w.buffer), Lang_kotlin)),
              scan_word(g.s, <<g.ch>>))

\* parse_token(&token) on the source s: the token filled in, and the source after.
parse_token(s) == With(LAMBDA g : token_of(s, g), first_char(s))

\* ------------------------------------------------------------ skippers

RECURSIVE skip_until_eol(_)
skip_until_eol_of(g) ==
    IF g.ch = EOF \/ g.ch = "\n" THEN g.s ELSE skip_until_eol(g.s)

skip_until_eol(s) == With(skip_until_eol_of, getc(s))

\* skip_comment_block, first == '*' && c == 0: the second character g2.
comment_block_second(g2) ==
    IF g2.ch = "/" THEN [s |-> g2.s, c |-> 0, brk |-> TRUE]
    ELSE [s |-> g2.s, c |-> IF g2.ch = "*" THEN 1 ELSE 0, brk |-> FALSE]

\* One iteration of skip_comment_block's loop on the character g1 read, with
\* flag cc: the source and flag after it, and whether the loop was left.
comment_block_first(g1, cc) ==
    IF g1.ch = "*" /\ cc = 0 THEN With(comment_block_second, getc(g1.s))
    ELSE IF g1.ch = "/" /\ cc = 1 THEN [s |-> g1.s, c |-> cc, brk |-> TRUE]
    ELSE [s |-> g1.s, c |-> 0, brk |-> FALSE]

comment_block_iter(s, cc) == With(LAMBDA g1 : comment_block_first(g1, cc), getc(s))

\* skip_open_close's locals on entry: the expected kind pre-incremented.
open_close_init(expected_close) ==
    [expected_close |-> expected_close,
     pars   |-> IF expected_close = ")" THEN 1 ELSE 0,
     curly  |-> IF expected_close = "}" THEN 1 ELSE 0,
     square |-> IF expected_close = "]" THEN 1 ELSE 0,
     arrows |-> IF expected_close = ">" THEN 1 ELSE 0]

\* skip_open_close's if-chain over the character read.
count_bracket(k, ch) ==
    CASE ch = "(" -> [k EXCEPT !.pars = @ + 1]
      [] ch = ")" -> [k EXCEPT !.pars = @ - 1]
      [] ch = "{" -> [k EXCEPT !.curly = @ + 1]
      [] ch = "}" -> [k EXCEPT !.curly = @ - 1]
      [] ch = "[" -> [k EXCEPT !.square = @ + 1]
      [] ch = "]" -> [k EXCEPT !.square = @ - 1]
      [] ch = "<" -> [k EXCEPT !.arrows = @ + 1]
      [] ch = ">" -> [k EXCEPT !.arrows = @ - 1]
      [] OTHER -> k

\* open_close_done without the test of the counters.
open_close_done_any_close(k, ch) == ch = k.expected_close

\* skip_open_close's exit test at the end of an iteration.
open_close_done(k, ch) ==
    /\ ch = k.expected_close
    /\ k.pars = 0 /\ k.square = 0 /\ k.curly = 0 /\ k.arrows = 0

\* open_close_slash without the skip_until_eol() of a line comment.
open_close_slash_no_line_skip(g2) == g2.s

\* skip_open_close, ch == '/': what the next character g2 leaves of the source
\* when it opens no block comment.
open_close_slash(g2) == IF g2.ch = "/" THEN skip_until_eol(g2.s) ELSE g2.s

\* ------------------------------------------------------------ tags

\* make_tag_entry(&tok, kind): the entry handed to makeTagEntry.
make_tag_entry(tok, kind) ==
    [name |-> tok.buffer, kind |-> kind,
     lineNumber |-> tok.line_number, filePosition |-> tok.file_position]

\* if (tok.token == token_identifier) make_tag_entry(&tok, kind);
tag_if_identifier(tok, kind) ==
    IF tok.token = "token_identifier" THEN <<make_tag_entry(tok, kind)>> ELSE <<>>

\* Modifiers without suspend.
Modifiers_without_suspend ==
    {"modifier_public", "modifier_internal", "modifier_private",
     "modifier_abstract", "modifier_protected", "modifier_open",
     "modifier_final", "modifier_override", "modifier_sealed"}

Modifiers ==
    {"modifier_public", "modifier_internal", "modifier_private",
     "modifier_abstract", "modifier_protected", "modifier_open",
     "modifier_final", "modifier_override", "modifier_sealed",
     "modifier_suspend"}

ClassKeywords == {"keyword_class", "keyword_interface", "keyword_object"}

\* A branch of the driver yields: the tokens t and sub after it, the tags it
\* emitted, the source after it, and the number of parse_token calls it made.
Branch(tk, sb, emit, s, calls) ==
    [t |-> tk, sub |-> sb, emit |-> emit, s |-> s, calls |-> calls]

\* class_branch without its skip_until_eol().
class_branch_no_skip(p, sb) ==
    Branch(p.tok, sb, tag_if_identifier(p.tok, "kind_class"), p.s, 1)

\* class_branch tagging a keyword as well as an identifier.
class_branch_tags_keyword(p, sb) ==
    Branch(p.tok, sb,
           IF p.tok.token \in {"token_identifier", "token_keyword"}
           THEN <<make_tag_entry(p.tok, "kind_class")>> ELSE <<>>,
           skip_until_eol(p.s), 1)

\* The class / interface / object branch, p being what its parse_token(&t)
\* returns.
class_branch(p, sb) ==
    Branch(p.tok, sb, tag_if_identifier(p.tok, "kind_class"), skip_until_eol(p.s), 1)

\* typealias_branch tagging whatever token follows the keyword.
typealias_branch_any_token(p, sb) ==
    Branch(p.tok, sb, <<make_tag_entry(p.tok, "kind_typealias")>>, p.s, 1)

\* The typealias branch, p being what its parse_token(&t) returns.
typealias_branch(p, sb) ==
    Branch(p.tok, sb, tag_if_identifier(p.tok, "kind_typealias"), p.s, 1)

\* const_val emitting its tag twice.
const_val_tags_twice(q, sb) ==
    Branch(q.tok, sb,
           tag_if_identifier(q.tok, "kind_const") \o tag_if_identifier(q.tok, "kind_const"),
           skip_until_eol(q.s), 2)

\* The const branch after `val`, q being what the second parse_token(&t) returns.
const_val(q, sb) ==
    Branch(q.tok, sb, tag_if_identifier(q.tok, "kind_const"), skip_until_eol(q.s), 2)

\* const_branch without the test for `val`: the token after const is the name.
const_branch_no_val(p, sb) ==
    Branch(p.tok, sb, tag_if_identifier(p.tok, "kind_const"), skip_until_eol(p.s), 1)

\* The const branch, p being what its first parse_token(&t) returns.
const_branch(p, sb) ==
    IF p.tok.keyword = "keyword_val"
    THEN With(LAMBDA q : const_val(q, sb), parse_token(p.s))
    ELSE Branch(p.tok, sb, <<>>, skip_until_eol(p.s), 1)

\* fun_receiver tagging whatever token follows the '.'.
fun_receiver_any_token(tk, q) ==
    Branch(tk, q.tok, <<make_tag_entry(q.tok, "kind_function")>>, q.s, 2)

\* The fun branch after `identifier .`, q being what parse_token(&sub) returns.
fun_receiver(tk, q) ==
    Branch(tk, q.tok, tag_if_identifier(q.tok, "kind_function"), q.s, 2)

\* fun_sub with the tag of `name(` placed at the '(' read into sub.
fun_sub_tag_at_lookahead(tk, p) ==
    IF p.tok.token = "token_dot"
    THEN With(LAMBDA q : fun_receiver(tk, q), parse_token(p.s))
    ELSE IF p.tok.token = "token_par_open"
         THEN Branch(tk, p.tok,
                     <<[make_tag_entry(tk, "kind_function") EXCEPT
                            !.lineNumber = p.tok.line_number,
                            !.filePosition = p.tok.file_position]>>,
                     p.s, 1)
         ELSE Branch(tk, p.tok, <<>>, skip_until_eol(p.s), 1)

\* The fun branch after an identifier tk, p being what parse_token(&sub) returns.
fun_sub(tk, p) ==
    IF p.tok.token = "token_dot"
    THEN With(LAMBDA q : fun_receiver(tk, q), parse_token(p.s))
    ELSE IF p.tok.token = "token_par_open"
         THEN Branch(tk, p.tok, <<make_tag_entry(tk, "kind_function")>>, p.s, 1)
         ELSE Branch(tk, p.tok, <<>>, skip_until_eol(p.s), 1)

\* The fun branch from `if (t.token == token_identifier)` on: tk is t, sb is
\* sub, s the source.
fun_name(tk, sb, s) ==
    IF tk.token = "token_identifier"
    THEN With(LAMBDA p : fun_sub(tk, p), parse_token(s))
    ELSE Branch(tk, sb, <<>>, skip_until_eol(s), 0)

\* ------------------------------------------------------------ the driver

NoToken == Tok("keyword_other", "token_other", 0, 0, <<>>)
NoCounters == open_close_init("none")

\* The driver loop's parse_token(&t) and nothing more: the token is consumed.
Consume(p) ==
    /\ t' = p.tok /\ src' = p.s /\ ntok' = ntok + 1

\* A branch b taken after the loop's parse_token(&t).
Take(b) ==
    /\ t' = b.t /\ sub' = b.sub /\ src' = b.s
    /\ tags' = tags \o b.emit
    /\ ntok' = ntok + 1 + b.calls

\* while (true) { parse_token(&t); if (t.token == token_eof) break;
DriverEof ==
    /\ pc = "loop"
    /\ \E p \in {parse_token(src)} :
        /\ p.tok.token = "token_eof"
        /\ Consume(p)
    /\ pc' = "done"
    /\ UNCHANGED Host /\ UNCHANGED <<ret, sub, tags, c, sk, cstart, cend>>

\* t.token == token_comment_start: skip_comment_block() is entered.
DriverCommentStart ==
    /\ pc = "loop"
    /\ \E p \in {parse_token(src)} :
        /\ p.tok.token = "token_comment_start"
        /\ Consume(p)
        /\ cstart' = p.s.pos /\ cend' = 0
    /\ pc' = "comment_block" /\ ret' = "loop" /\ c' = 0
    /\ UNCHANGED Host /\ UNCHANGED <<sub, tags, sk>>

\* t.token == token_comment_line: skip_until_eol().
DriverCommentLine ==
    /\ pc = "loop"
    /\ \E p \in {parse_token(src)} :
        /\ p.tok.token = "token_comment_line"
        /\ t' = p.tok /\ src' = skip_until_eol(p.s) /\ ntok' = ntok + 1
    /\ UNCHANGED Host /\ UNCHANGED <<pc, ret, sub, tags, c, sk, cstart, cend>>

\* A pure modifier keyword: nothing.
DriverModifier ==
    /\ pc = "loop"
    /\ \E p \in {parse_token(src)} :
        /\ p.tok.token = "token_keyword" /\ p.tok.keyword \in Modifiers
        /\ Consume(p)
    /\ UNCHANGED Host /\ UNCHANGED <<pc, ret, sub, tags, c, sk, cstart, cend>>

\* class, interface, object.
DriverClass ==
    /\ pc = "loop"
    /\ \E p \in {parse_token(src)} :
        /\ p.tok.token = "token_keyword" /\ p.tok.keyword \in ClassKeywords
        /\ \E b \in {class_branch(parse_token(p.s), sub)} : Take(b)
    /\ UNCHANGED Host /\ UNCHANGED <<pc, ret, c, sk, cstart, cend>>

\* typealias.
DriverTypealias ==
    /\ pc = "loop"
    /\ \E p \in {parse_token(src)} :
        /\ p.tok.token = "token_keyword" /\ p.tok.keyword = "keyword_typealias"
        /\ \E b \in {typealias_branch(parse_token(p.s), sub)} : Take(b)
    /\ UNCHANGED Host /\ UNCHANGED <<pc, ret, c, sk, cstart, cend>>

\* const.
DriverConst ==
    /\ pc = "loop"
    /\ \E p \in {parse_token(src)} :
        /\ p.tok.token = "token_keyword" /\ p.tok.keyword = "modifier_const"
        /\ \E b \in {const_branch(parse_token(p.s), sub)} : Take(b)
    /\ UNCHANGED Host /\ UNCHANGED <<pc, ret, c, sk, cstart, cend>>

\* fun: the token after it; a '<' enters skip_open_close('>'), anything else
\* goes on to the name.
DriverFun ==
    /\ pc = "loop"
    /\ \E p \in {parse_token(src)} :
        /\ p.tok.token = "token_keyword" /\ p.tok.keyword = "keyword_fun"
        /\ \E q \in {parse_token(p.s)} :
            IF q.tok.token = "token_arrow_open" THEN
                /\ t' = q.tok /\ src' = q.s /\ ntok' = ntok + 2
                /\ pc' = "open_close" /\ sk' = open_close_init(">")
                /\ UNCHANGED <<sub, tags>>
            ELSE
                /\ \E b \in {fun_name(q.tok, sub, q.s)} :
                    /\ t' = b.t /\ sub' = b.sub /\ src' = b.s
                    /\ tags' = tags \o b.emit
                    /\ ntok' = ntok + 2 + b.calls
                /\ UNCHANGED <<pc, sk>>
    /\ UNCHANGED Host /\ UNCHANGED <<ret, c, cstart, cend>>

\* fun, after skip_open_close('>') has returned: parse_token(&t), then the name.
FunAfterTypeParams ==
    /\ pc = "fun_name"
    /\ \E p \in {parse_token(src)} :
        \E b \in {fun_name(p.tok, sub, p.s)} : Take(b)
    /\ pc' = "loop"
    /\ UNCHANGED Host /\ UNCHANGED <<ret, c, sk, cstart, cend>>

\* Any other keyword (package, import, val, var, enum): skip_until_eol().
DriverOtherKeyword ==
    /\ pc = "loop"
    /\ \E p \in {parse_token(src)} :
        /\ p.tok.token = "token_keyword"
        /\ p.tok.keyword \notin Modifiers \cup ClassKeywords
                \cup {"keyword_typealias", "modifier_const", "keyword_fun"}
        /\ t' = p.tok /\ src' = skip_until_eol(p.s) /\ ntok' = ntok + 1
    /\ UNCHANGED Host /\ UNCHANGED <<pc, ret, sub, tags, c, sk, cstart, cend>>

\* An identifier, or any token the loop has no branch for: ignored.
DriverIgnore ==
    /\ pc = "loop"
    /\ \E p \in {parse_token(src)} :
        /\ p.tok.token \notin {"token_eof", "token_comment_start",
                               "token_comment_line", "token_keyword"}
        /\ Consume(p)
    /\ UNCHANGED Host /\ UNCHANGED <<pc, ret, sub, tags, c, sk, cstart, cend>>

\* One iteration of skip_comment_block's while (true).
SkipCommentBlockStep ==
    /\ pc = "comment_block"
    /\ \E r \in {comment_block_iter(src, c)} :
        /\ src' = r.s
        /\ c' = IF r.brk THEN 0 ELSE r.c
        /\ pc' = IF r.brk THEN ret ELSE pc
        /\ cend' = IF r.brk THEN r.s.pos ELSE 0
    /\ UNCHANGED Host /\ UNCHANGED <<ret, t, sub, tags, sk, cstart, ntok>>

\* One iteration of skip_open_close's while (true).
SkipOpenCloseStep ==
    /\ pc = "open_close"
    /\ \E g \in {getc(src)} :
        IF g.ch = EOF THEN
            /\ src' = g.s /\ pc' = "fun_name" /\ sk' = NoCounters
            /\ UNCHANGED <<ret, c, cstart, cend>>
        ELSE IF g.ch = "/" THEN
            \E g2 \in {getc(g.s)} :
                IF g2.ch = "*" THEN
                    /\ src' = g2.s /\ pc' = "comment_block"
                    /\ ret' = "open_close" /\ c' = 0
                    /\ cstart' = g2.s.pos /\ cend' = 0
                    /\ UNCHANGED sk
                ELSE
                    /\ src' = open_close_slash(g2)
                    /\ UNCHANGED <<pc, ret, c, sk, cstart, cend>>
        ELSE
            \E k \in {count_bracket(sk, g.ch)} :
                /\ src' = g.s
                /\ IF open_close_done(k, g.ch)
                   THEN pc' = "fun_name" /\ sk' = NoCounters
                   ELSE pc' = pc /\ sk' = k
                /\ UNCHANGED <<ret, c, cstart, cend>>
    /\ UNCHANGED Host /\ UNCHANGED <<t, sub, tags, ntok>>

\* ------------------------------------------------------------ inputs

InClassFooFunBar ==
    <<"c","l","a","s","s"," ","F","o","o"," ","{"," ","f","u","n"," ","b","a","r","(",")"," ","{","}"," ","}">>
InTypealiasResult ==
    <<"t","y","p","e","a","l","i","a","s"," ","R","e","s","u","l","t","<","T",">"," ","="," ","E","i","t","h","e","r","<","T","h","r","o","w","a","b","l","e",","," ","T",">">>
InConstValMax ==
    <<"c","o","n","s","t"," ","v","a","l"," ","M","A","X"," ","="," ","1","0","0">>
InValMax ==
    <<"v","a","l"," ","M","A","X"," ","="," ","1","0","0">>
InFunStringReversed ==
    <<"f","u","n"," ","S","t","r","i","n","g",".","r","e","v","e","r","s","e","d","(",")",":"," ","S","t","r","i","n","g">>
InFunIdentity ==
    <<"f","u","n"," ","<","T",">"," ","i","d","e","n","t","i","t","y","(","x",":"," ","T",")",":"," ","T">>
InFunComparable ==
    <<"f","u","n"," ","<","T"," ",":"," ","C","o","m","p","a","r","a","b","l","e","<","T",">",">"," ","m","a","x","(","a",":"," ","T",")">>
InNestedComment ==
    <<"/","*"," ","o","u","t","e","r"," ","/","*"," ","i","n","n","e","r"," ","*","/"," ","s","t","i","l","l"," ","o","u","t","e","r"," ","*","/">>

InNestedFun ==
    <<"c","l","a","s","s"," ","F","o","o"," ","{","\n"," "," ","f","u","n"," ","b","a","r","(",")"," ","{","}","\n","}">>
InEnumClassColor ==
    <<"e","n","u","m"," ","c","l","a","s","s"," ","C","o","l","o","r">>
InModifiersAndComment ==
    <<"/","/"," ","n","o","t","e","\n","p","u","b","l","i","c"," ","f","i","n","a","l"," ","c","l","a","s","s"," ","F","o","o">>

\* The inputs the specification names one by one, and two more: a member
\* function on a line of its own, and modifiers after a line comment.
Samples ==
    { InClassFooFunBar, InTypealiasResult, InConstValMax, InValMax,
      InFunStringReversed, InFunIdentity, InFunComparable, InNestedComment,
      InNestedFun, InEnumClassColor, InModifiersAndComment }

RECURSIVE Flatten(_)
\* The concatenation of a sequence of character sequences.
Flatten(ss) == IF ss = <<>> THEN <<>> ELSE Head(ss) \o Flatten(Tail(ss))

\* The sequences over S of length at most n.
SeqsUpTo(S, n) == UNION {[1..k -> S] : k \in 0..n}

\* The longest run of declaration lexemes an input is put together from.
MaxDecl == 3

\* The lexemes of declarations: keywords, a name, separators, openers.
DeclChunks ==
    { <<"c","l","a","s","s"," ">>,
      <<"t","y","p","e","a","l","i","a","s"," ">>,
      <<"c","o","n","s","t"," ">>,
      <<"v","a","l"," ">>,
      <<"f","u","n"," ">>,
      <<"A">>,
      <<" ">>,
      <<"\n">>,
      <<"{">>,
      <<"(">> }

\* Every run of at most MaxDecl declaration lexemes.
DeclInputs == {Flatten(ss) : ss \in SeqsUpTo(DeclChunks, MaxDecl)}

\* The longest block-comment content an input is put together from.
MaxComment == 5

\* What a block comment is made of: the two characters of its closer, and
\* one that is neither.
CommentChars == {"*", "/", "a"}

\* A block comment opened at the top level, and one opened inside the type
\* parameters of a fun.
CommentOpeners == { <<"/","*">>, <<"f","u","n"," ","<","/","*">> }

\* What follows the content: nothing, or a closer and the rest of a fun.
CommentTrailers == { <<>>, <<"*","/",">","f","(">> }

\* Every block comment with at most MaxComment characters of content.
CommentInputs ==
    {o \o body \o tr : o \in CommentOpeners,
                       body \in SeqsUpTo(CommentChars, MaxComment),
                       tr \in CommentTrailers}

\* The keywords that start a declaration, each with the separator after it.
OperandKeywords ==
    { <<"c","l","a","s","s"," ">>,
      <<"i","n","t","e","r","f","a","c","e"," ">>,
      <<"o","b","j","e","c","t"," ">>,
      <<"t","y","p","e","a","l","i","a","s"," ">>,
      <<"c","o","n","s","t"," ">>,
      <<"c","o","n","s","t"," ","v","a","l"," ">>,
      <<"c","o","n","s","t","\n","v","a","l","\n">>,
      <<"f","u","n"," ">>,
      <<"f","u","n"," ","a",".">>,
      <<"e","n","u","m"," ">>,
      <<"i","m","p","o","r","t"," ">> }

\* What may stand where the declared name is expected: names, names with
\* operator characters in them, operators, brackets, keywords, numbers,
\* comment openers, and nothing at all.
Operands ==
    { <<"F","o","o">>,
      <<"a","_","1">>,
      <<"A",":","B">>,
      <<"x","=","1">>,
      <<"+">>,
      <<"=">>,
      <<"{">>,
      <<":">>,
      <<"f","u","n">>,
      <<"v","a","l">>,
      <<"/","*">>,
      <<"/","/">>,
      <<>>,
      <<"1">>,
      <<"1",".","5","f">>,
      <<"2",".">>,
      <<"$">>,
      <<"[">>,
      <<"]">>,
      <<"<">>,
      <<".">>,
      <<"/">> }

\* What follows the operand.
OperandTails ==
    { <<>>,
      <<" ">>,
      <<"\n">>,
      <<" ","{">>,
      <<"(">>,
      <<" ","="," ","1","\n","c","l","a","s","s"," ","B">>,
      <<" ","c","l","a","s","s"," ","B">> }

\* A declaration keyword, an operand, a tail.
OperandInputs ==
    {k \o o \o tl : k \in OperandKeywords, o \in Operands, tl \in OperandTails}

\* The most identifiers a dotted function name is put together from: the
\* parts of the receiver type, and the name.
MaxPath == 3

\* The identifiers of receiver types and function names.
PathNames ==
    { <<"S","t","r","i","n","g">>,
      <<"r","e","v","e","r","s","e","d">>,
      <<"a">> }

FunKeyword == <<"f","u","n"," ">>
Dot == <<".">>

RECURSIVE Dotted(_)
\* The identifiers of a path with a '.' between them.
Dotted(path) ==
    IF Len(path) = 1 THEN path[1] ELSE path[1] \o Dot \o Dotted(Tail(path))

\* What follows the name of a function: its parameter list, and a return type.
ReceiverTails == { <<"(",")">>,
                   <<"(",")",":"," ","S","t","r","i","n","g">> }

\* `fun Receiver.name(...)`, the receiver having at most MaxPath - 1 parts.
ReceiverInputs ==
    {FunKeyword \o Dotted(path) \o tl :
        path \in UNION {[1..k -> PathNames] : k \in 2..MaxPath},
        tl \in ReceiverTails}

\* The longest type-parameter list an input is put together from.
MaxParams == 4

\* The lexemes of a type-parameter list: a name, a bound, the four bracket
\* kinds, the arrow of a function type.
ParamChunks ==
    { <<"T">>,
      <<" ",":"," ">>,
      <<"<">>,
      <<">">>,
      <<"(">>,
      <<")">>,
      <<"-",">">>,
      <<"[">>,
      <<"]">> }

Openers == {"<", "(", "[", "{"}
Closers == {">", ")", "]", "}"}
CloserOf(o) ==
    CASE o = "<" -> ">" [] o = "(" -> ")" [] o = "[" -> "]" [] o = "{" -> "}"

RECURSIVE Balanced(_, _)
\* Whether the brackets of a run of lexemes nest properly; open holds the
\* closers still expected.  The '>' of an arrow is no bracket.
Balanced(ps, open) ==
    IF ps = <<>> THEN open = <<>>
    ELSE IF Len(Head(ps)) = 1 /\ Head(ps)[1] \in Openers
         THEN Balanced(Tail(ps), <<CloserOf(Head(ps)[1])>> \o open)
    ELSE IF Len(Head(ps)) = 1 /\ Head(ps)[1] \in Closers
         THEN /\ open # <<>>
              /\ Head(open) = Head(ps)[1]
              /\ Balanced(Tail(ps), Tail(open))
    ELSE Balanced(Tail(ps), open)

GenericHead == <<"f","u","n"," ","<">>
GenericTail == <<">"," ","n","a","m","e","(">>

\* `fun <TYPEPARAMS> name(`, TYPEPARAMS every bracket-balanced run of at most
\* MaxParams lexemes.
GenericInputs ==
    {GenericHead \o Flatten(ps) \o GenericTail :
        ps \in {qs \in SeqsUpTo(ParamChunks, MaxParams) : Balanced(qs, <<>>)}}

\* The longest run of lexemes after the name of a type alias.
MaxAlias == 3

\* The lexemes of what follows the name of a type alias: type parameters,
\* the '=', and the type expression.
AliasChunks ==
    { <<"<","T",">">>,
      <<" ","="," ">>,
      <<"B">>,
      <<","," ">>,
      <<"(",")","-",">">>,
      <<"s","u","s","p","e","n","d"," ">>,
      <<".">> }

AliasHeads == { <<"t","y","p","e","a","l","i","a","s"," ","A">> }

\* `typealias Name` and at most MaxAlias lexemes after it.
TypealiasInputs ==
    ({h \o Flatten(ss) : h \in AliasHeads, ss \in SeqsUpTo(AliasChunks, MaxAlias)}
        \cup {InTypealiasResult})

\* The most modifiers put before a declaration.
MaxMods == 2

\* The pure modifiers, each with the whitespace that ends it.
ModifierChunks ==
    { <<"p","u","b","l","i","c"," ">>,
      <<"i","n","t","e","r","n","a","l"," ">>,
      <<"p","r","i","v","a","t","e","\n">>,
      <<"a","b","s","t","r","a","c","t"," ">>,
      <<"p","r","o","t","e","c","t","e","d"," ">>,
      <<"o","p","e","n","\t">>,
      <<"f","i","n","a","l"," "," ">>,
      <<"o","v","e","r","r","i","d","e"," ">>,
      <<"s","e","a","l","e","d"," ">>,
      <<"s","u","s","p","e","n","d"," ">> }

\* A declaration of each kind.
ModifiedDecls ==
    { <<"c","l","a","s","s"," ","F","o","o"," ","{","\n","i","n","t","e","r","f","a","c","e"," ","I">>,
      <<"o","b","j","e","c","t"," ","O","\n","f","u","n"," ","<","T",">"," ","g","(","x",")">>,
      <<"t","y","p","e","a","l","i","a","s"," ","A"," ","="," ","B">>,
      <<"c","o","n","s","t"," ","v","a","l"," ","X"," ","="," ","1","\n","f","u","n"," ","A",".","h","(",")">> }

\* At most MaxMods modifiers and a declaration.
ModifierInputs ==
    {Flatten(ms) \o d : ms \in SeqsUpTo(ModifierChunks, MaxMods), d \in ModifiedDecls}

RECURSIVE StripModifiers(_)
\* The file f without the modifiers it begins with.
StripModifiers(f) ==
    IF \E m \in ModifierChunks : Len(f) >= Len(m) /\ SubSeq(f, 1, Len(m)) = m
    THEN StripModifiers(SubSeq(f,
            Len(CHOOSE m \in ModifierChunks :
                    Len(f) >= Len(m) /\ SubSeq(f, 1, Len(m)) = m) + 1, Len(f)))
    ELSE f

\* The file the host reads after the file f: f without its leading modifiers,
\* and f again if it has none.
NextFiles(f) == {StripModifiers(f)}

\* The longest run of lexemes inside the angle brackets of a skipped
\* type-parameter list.
MaxSkip == 4

\* What skip_open_close meets: a '/', the ends of a block comment, round
\* brackets, the end of a line.
SkipChunks ==
    { <<"/">>, <<"/","*">>, <<"*","/">>, <<"(">>, <<")">>, <<"\n">> }

SkipTail == <<">","f","(","x",")">>

\* `fun <` and at most MaxSkip such lexemes, then `>f(x)`.
SkipInputs ==
    {GenericHead \o Flatten(ss) \o SkipTail : ss \in SeqsUpTo(SkipChunks, MaxSkip)}

\* What stands before a comment: nothing, whitespace, an identifier, a symbol,
\* a keyword that reads a further token.
BeforeComment ==
    { <<>>,
      <<" ">>,
      <<"a">>,
      <<")">>,
      <<"c","l","a","s","s"," ","F","o","o">>,
      <<"t","y","p","e","a","l","i","a","s"," ">>,
      <<"f","u","n"," ","a",".">> }

\* A comment with a declaration in it, and what follows the comment.
CommentBodies ==
    { <<"/","/"," ","c","l","a","s","s"," ","B">>,
      <<"/","/","c","l","a","s","s"," ","B","\n","f","u","n"," ","g","(",")">>,
      <<"/","*"," ","c","l","a","s","s"," ","B"," ","*","/">>,
      <<"/","*","c","l","a","s","s"," ","B","\n","*","/","\n","f","u","n"," ","g","(",")">> }

\* A comment with a declaration in it wherever a comment may stand.
CommentedDeclInputs ==
    {b \o cm : b \in BeforeComment, cm \in CommentBodies}

\* The files after which the host reads a second file.
SessionFiles == Samples \cup ModifierInputs \cup OperandInputs \cup ReceiverInputs

Inputs ==
    Samples \cup ModifierInputs \cup DeclInputs \cup CommentInputs \cup OperandInputs
        \cup ReceiverInputs \cup GenericInputs \cup TypealiasInputs
        \cup SkipInputs \cup CommentedDeclInputs

\* ------------------------------------------------------------ the host

\* StartRun with the delimiter table cleared.
StartRun_clears_delimiters(f) ==
    /\ input' = f
    /\ src' = [pos |-> 1, unget |-> <<>>]
    /\ pc' = "loop" /\ ret' = "loop"
    /\ t' = NoToken /\ sub' = NoToken
    /\ tags' = <<>>
    /\ c' = 0 /\ sk' = NoCounters
    /\ cstart' = 0 /\ cend' = 0 /\ ntok' = 0
    /\ delimiters' = [ch \in DOMAIN delimiters |-> 0]
    /\ UNCHANGED Lang_kotlin

\* find_kotlin_tags is entered on the file f: the locals are fresh, the tag
\* file of f is empty, and the process-wide state is what the last run left.
StartRun(f) ==
    /\ input' = f
    /\ src' = [pos |-> 1, unget |-> <<>>]
    /\ pc' = "loop" /\ ret' = "loop"
    /\ t' = NoToken /\ sub' = NoToken
    /\ tags' = <<>>
    /\ c' = 0 /\ sk' = NoCounters
    /\ cstart' = 0 /\ cend' = 0 /\ ntok' = 0
    /\ UNCHANGED <<delimiters, Lang_kotlin>>

\* find_kotlin_tags has returned and the host runs the parser on its next
\* file: the same file again, or the file without its leading modifiers.
NextFile ==
    /\ pc = "done" /\ run = "first"
    /\ input \in SessionFiles
    /\ \E f \in NextFiles(input) : StartRun(f)
    /\ run' = "second"
    /\ prev_input' = input
    /\ prev_tags' = tags

Next ==
    \/ NextFile
    \/ DriverEof
    \/ DriverCommentStart
    \/ DriverCommentLine
    \/ DriverModifier
    \/ DriverClass
    \/ DriverTypealias
    \/ DriverConst
    \/ DriverFun
    \/ FunAfterTypeParams
    \/ DriverOtherKeyword
    \/ DriverIgnore
    \/ SkipCommentBlockStep
    \/ SkipOpenCloseStep

\* ------------------------------------------------------------ specification

\* KotlinParser() has run init_delimiters(), the host has called initialize(),
\* and find_kotlin_tags() is entered on the first file.
Init ==
    /\ input \in Inputs
    /\ src = [pos |-> 1, unget |-> <<>>]
    /\ delimiters = init_delimiters
    /\ pc = "loop"
    /\ ret = "loop"
    /\ t = NoToken
    /\ sub = NoToken
    /\ tags = <<>>
    /\ c = 0
    /\ sk = NoCounters
    /\ cstart = 0
    /\ cend = 0
    /\ ntok = 0
    /\ Lang_kotlin = KotlinLangType
    /\ run = "first"
    /\ prev_input = <<>>
    /\ prev_tags = <<>>

Spec == Init /\ [][Next]_vars

\* The loops run on: a step that can change the state is taken.
FairSpec == Spec /\ WF_vars(Next)

\* ------------------------------------------------------------ claims

\* C1: find_kotlin_tags terminates on every finite input: the driver loop
\* reaches end-of-input and returns, also when the input ends inside a line
\* comment, a block comment or a bracket skip.
C1_Terminates == <>(pc = "done")

\* The tags emitted so far, as <<name, kind>> pairs with the name as a string.
Emitted == [i \in 1..Len(tags) |-> <<Str(tags[i].name), tags[i].kind>>]

\* C2: keywords, operators and punctuation are never emitted as tag names:
\* the name of every emitted tag consists only of letters, digits and
\* underscores and is not the spelling of a reserved word.
C2_NamesAreIdentifiers ==
    \A i \in 1..Len(tags) :
        /\ \A j \in 1..Len(tags[i].name) : tags[i].name[j] \in IdentChar
        /\ \A k \in KotlinKeywordTable : k.name # Str(tags[i].name)

\* The number of braces open before character i of the input.
BraceDepth(i) ==
    Cardinality({j \in 1..(i - 1) : input[j] = "{"})
        - Cardinality({j \in 1..(i - 1) : input[j] = "}"})

\* C3: only top-level declarations produce tags: no tag is emitted for a
\* declaration that stands inside a brace-delimited body, on the same or a
\* later line.
C3_OnlyTopLevel ==
    \A i \in 1..Len(tags) : BraceDepth(tags[i].filePosition) = 0

\* C4 as stated: `class Foo { fun bar() {} }` emits a class tag Foo and a
\* function tag bar, two tags in all.
C4_FooAndBar ==
    (input = InClassFooFunBar /\ pc = "done")
        => Emitted = << <<"Foo", "kind_class">>, <<"bar", "kind_function">> >>

\* C4 as amended: `class Foo { fun bar() {} }` emits exactly one tag, the
\* class tag Foo; the rest of the line, fun bar included, is skipped.
C4_FooOnly ==
    (input = InClassFooFunBar /\ pc = "done")
        => Emitted = << <<"Foo", "kind_class">> >>

\* C4's case: the run over `class Foo { fun bar() {} }` has returned.
C4_Witness == input = InClassFooFunBar /\ pc = "done" /\ ntok = 3

\* ------------------------------------------------------------ C5

\* The driver is at the top of its loop and the token it reads next is a
\* keyword of kws.
Dispatches(kws) ==
    /\ pc = "loop"
    /\ \E p \in {parse_token(src)} :
        p.tok.token = "token_keyword" /\ p.tok.keyword \in kws

\* The tags after a step that emits a tag of the given kind for tok if tok is
\* an identifier, and nothing otherwise.
TagsWith(tok, kind) ==
    IF tok.token = "token_identifier"
    THEN Append(tags, [name |-> tok.buffer, kind |-> kind,
                       lineNumber |-> tok.line_number,
                       filePosition |-> tok.file_position])
    ELSE tags

\* C5: a step that dispatches class, interface or object reads exactly one
\* further token; that token being an identifier, exactly one class tag with
\* its text is emitted, and being anything else, no tag is emitted.
C5_ClassDispatch ==
    [][Dispatches(ClassKeywords) =>
        \E p \in {parse_token(src)} : \E q \in {parse_token(p.s)} :
            /\ ntok' = ntok + 2
            /\ t' = q.tok
            /\ tags' = TagsWith(q.tok, "kind_class")]_vars

\* A class keyword and an identifier have been read, and the tag is out.
C5_Witness ==
    /\ pc = "loop" /\ ntok = 2
    /\ t.token = "token_identifier"
    /\ Len(tags) = 1 /\ tags[1].kind = "kind_class" /\ tags[1].name = t.buffer

\* ------------------------------------------------------------ C6

\* The first place of ch in the input.
FirstIndex(ch) ==
    CHOOSE i \in 1..Len(input) :
        input[i] = ch /\ \A j \in 1..(i - 1) : input[j] # ch

\* The identifier that ends right before place i of the input.
NameBefore(i) ==
    LET st == CHOOSE k \in 1..i :
                  /\ \A j \in k..(i - 1) : input[j] \in IdentChar
                  /\ k = 1 \/ input[k - 1] \notin IdentChar
    IN  SubSeq(input, st, i - 1)

\* C6: for `fun Receiver.name(...)`, whatever the receiver, exactly one
\* function tag is emitted, named by the identifier right before the
\* parameter list; `fun String.reversed(): String` emits reversed.
C6_ReceiverFunName ==
    /\ (input \in ReceiverInputs /\ pc = "done") =>
            Emitted = << <<Str(NameBefore(FirstIndex("("))), "kind_function">> >>
    /\ (input = InFunStringReversed /\ pc = "done") =>
            Emitted = << <<"reversed", "kind_function">> >>

\* ------------------------------------------------------------ C7

\* The input is `fun <TYPEPARAMS> name(`.
IsGenericInput ==
    /\ Len(input) >= Len(GenericHead) + Len(GenericTail)
    /\ SubSeq(input, 1, Len(GenericHead)) = GenericHead
    /\ SubSeq(input, Len(input) - Len(GenericTail) + 1, Len(input)) = GenericTail
    /\ input \in GenericInputs

\* C7: for `fun <TYPEPARAMS> name(`, TYPEPARAMS bracket-balanced, the bracket
\* skipper stops right after the '>' that matches the opening '<' and exactly
\* one function tag named name is emitted; `fun <T> identity(x: T): T` emits
\* identity.
C7_GenericFunName ==
    /\ (IsGenericInput /\ pc = "fun_name") =>
            src = [pos |-> Len(input) - Len(GenericTail) + 2, unget |-> <<>>]
    /\ (IsGenericInput /\ pc = "done") =>
            Emitted = << <<Str(NameBefore(Len(input))), "kind_function">> >>
    /\ (input = InFunIdentity /\ pc = "done") =>
            Emitted = << <<"identity", "kind_function">> >>

\* ------------------------------------------------------------ C8

\* The last tag, when the step has emitted one.
Emits(kind) ==
    /\ Len(tags') = Len(tags) + 1
    /\ tags'[Len(tags')].kind = kind

\* C8: a step that dispatches const emits a const tag if and only if the next
\* token is the keyword val and the one after it an identifier, the tag
\* carrying that identifier's text, and the rest of the line is skipped; no
\* other step emits a const tag; `const val MAX = 100` emits exactly the
\* const tag MAX and `val MAX = 100` emits nothing.
C8_ConstDispatch ==
    /\ [][Dispatches({"modifier_const"}) =>
            \E p \in {parse_token(src)} : \E q \in {parse_token(p.s)} :
                IF q.tok.token = "token_keyword" /\ q.tok.keyword = "keyword_val"
                THEN \E r \in {parse_token(q.s)} :
                        /\ tags' = TagsWith(r.tok, "kind_const")
                        /\ src' = skip_until_eol(r.s)
                ELSE /\ tags' = tags
                     /\ src' = skip_until_eol(q.s)]_vars
    /\ [][Emits("kind_const") => Dispatches({"modifier_const"})]_vars
    /\ []((input = InConstValMax /\ pc = "done") =>
                Emitted = << <<"MAX", "kind_const">> >>)
    /\ []((input = InValMax /\ pc = "done") => tags = <<>>)

\* `const val MAX = 100` is read to its end and the tag MAX is out.
C8_Witness ==
    /\ input = InConstValMax /\ pc = "done"
    /\ Emitted = << <<"MAX", "kind_const">> >>

\* ------------------------------------------------------------ C9

\* The place of the name in `typealias Name...`.
AliasNameAt == Len(<<"t","y","p","e","a","l","i","a","s"," ">>) + 1

\* C9: a step that dispatches typealias emits exactly one typealias tag named
\* by the next token if that token is an identifier, and skips nothing; what
\* follows the name of the alias emits no further tag;
\* `typealias Result<T> = Either<Throwable, T>` emits exactly Result.
C9_TypealiasDispatch ==
    /\ [][Dispatches({"keyword_typealias"}) =>
            \E p \in {parse_token(src)} : \E q \in {parse_token(p.s)} :
                /\ tags' = TagsWith(q.tok, "kind_typealias")
                /\ src' = q.s]_vars
    /\ []((input \in TypealiasInputs /\ pc = "done") =>
                /\ Len(tags) = 1
                /\ tags[1].kind = "kind_typealias"
                /\ tags[1].filePosition = AliasNameAt)
    /\ []((input = InTypealiasResult /\ pc = "done") =>
                Emitted = << <<"Result", "kind_typealias">> >>)

\* `typealias Result<T> = Either<Throwable, T>` is read to its end and the
\* tag Result is out.
C9_Witness ==
    /\ input = InTypealiasResult /\ pc = "done"
    /\ Emitted = << <<"Result", "kind_typealias">> >>

\* ------------------------------------------------------------ C10

\* The place of the '*' of the first `*/` at or after place from, 0 if the
\* input has none.
FirstClose(from) ==
    LET closes == {i \in from..(Len(input) - 1) :
                      input[i] = "*" /\ input[i + 1] = "/"}
    IN  IF closes = {} THEN 0
        ELSE CHOOSE i \in closes : \A j \in closes : i <= j

\* C10: skip_comment_block, started at cstart just after a `/*`, reads no
\* further than the first `*/` of the remaining input and returns with the
\* source right after it, so that the next token starts there.
C10_StopsAtFirstClose ==
    /\ (pc = "comment_block" /\ FirstClose(cstart) # 0) =>
            src.pos <= FirstClose(cstart) + 1
    /\ cend # 0 =>
            /\ FirstClose(cstart) # 0
            /\ cend = FirstClose(cstart) + 2
            /\ (pc # "comment_block" /\ src.pos = cend) => src.unget = <<>>

\* ------------------------------------------------------------ C11

\* The two characters a and b are the next the file delivers.
Ahead(a, b) ==
    /\ src.unget = <<>>
    /\ src.pos + 1 <= Len(input)
    /\ input[src.pos] = a /\ input[src.pos + 1] = b

\* The place after the first newline at or after place i, and the place after
\* the end of the input if there is none.
AfterLine(i) ==
    LET ends == {j \in i..Len(input) : input[j] = "\n"}
    IN  IF ends = {} THEN Len(input) + 1
        ELSE (CHOOSE j \in ends : \A m \in ends : j <= m) + 1

\* C11: while skip_open_close runs, a comment it meets changes none of the
\* four counters: a line comment is passed to the end of its line in one
\* iteration that leaves the counters as they are, a block comment is handed
\* to skip_comment_block, which leaves them as they are until it returns to
\* skip_open_close, whatever the comment contains.
C11_CommentsKeepCounters ==
    /\ [](pc = "open_close" => src.unget = <<>>)
    /\ [][(pc = "open_close" /\ Ahead("/", "/")) =>
            /\ sk' = sk /\ pc' = "open_close"
            /\ src' = [pos |-> AfterLine(src.pos + 2), unget |-> <<>>]]_vars
    /\ [][(pc = "open_close" /\ Ahead("/", "*")) =>
            /\ sk' = sk /\ pc' = "comment_block" /\ ret' = "open_close"
            /\ src' = [pos |-> src.pos + 2, unget |-> <<>>]]_vars
    /\ [][(pc = "comment_block" /\ ret = "open_close") =>
            /\ sk' = sk
            /\ pc' \in {"comment_block", "open_close"}]_vars

\* skip_open_close is back from a block comment that held a bracket, its
\* counters as on entry.
C11_Witness ==
    /\ pc = "open_close" /\ cend # 0 /\ src.pos = cend
    /\ \E i \in cstart..(cend - 1) : input[i] = "("
    /\ sk = open_close_init(">")

\* ------------------------------------------------------------ C12

\* The number of newlines among the first n characters of the file f.
NewlinesIn(f, n) == Cardinality({i \in 1..n : f[i] = "\n"})

\* C12: the pure modifiers are transparent: a declaration read after any
\* sequence of modifiers yields the tags it yields when read without them,
\* the same names and kinds in the same order, each at the place shifted by
\* the modifiers.
C12_ModifiersTransparent ==
    (/\ run = "second" /\ pc = "done"
     /\ prev_input \in ModifierInputs
     /\ input = StripModifiers(prev_input)) =>
        /\ Len(tags) = Len(prev_tags)
        /\ \A i \in 1..Len(tags) :
            /\ prev_tags[i].name = tags[i].name
            /\ prev_tags[i].kind = tags[i].kind
            /\ prev_tags[i].filePosition =
                    tags[i].filePosition + (Len(prev_input) - Len(input))
            /\ prev_tags[i].lineNumber =
                    tags[i].lineNumber
                        + NewlinesIn(prev_input, Len(prev_input) - Len(input))

\* A declaration has been read after two modifiers, one ending its line,
\* and again without them, and has yielded two tags.
C12_Witness ==
    /\ run = "second" /\ pc = "done"
    /\ prev_input \in ModifierInputs
    /\ input = StripModifiers(prev_input)
    /\ Len(prev_input) - Len(input) > 12
    /\ NewlinesIn(prev_input, Len(prev_input) - Len(input)) = 1
    /\ Len(tags) = 2

\* ------------------------------------------------------------ C13

\* C13: every make_tag_entry is made on a token buffer, t or sub, that the
\* most recent parse_token call on it left with the kind token_identifier:
\* a step that emits emits one tag, equal to such a token in name and place.
C13_TagsFromIdentifiers ==
    [][(tags' # tags /\ run' = run) =>
        /\ Len(tags') = Len(tags) + 1
        /\ SubSeq(tags', 1, Len(tags)) = tags
        /\ \E tok \in {t', sub'} :
            /\ tok.token = "token_identifier"
            /\ tags'[Len(tags')].name = tok.buffer
            /\ tags'[Len(tags')].lineNumber = tok.line_number
            /\ tags'[Len(tags')].filePosition = tok.file_position]_vars

\* A function tag has been made from the identifier in sub after a receiver.
C13_Witness ==
    /\ Len(tags) = 1 /\ tags[1].kind = "kind_function"
    /\ sub.token = "token_identifier" /\ tags[1].name = sub.buffer
    /\ t.token = "token_identifier" /\ tags[1].name # t.buffer

\* ------------------------------------------------------------ C14

\* C14: a run modifies neither the delimiter table nor the stored language
\* identifier, the second run of a session starts from the process-wide
\* state the first started from, and a file read twice yields the same tag
\* entries twice, in the same order.
C14_RunsRepeat ==
    /\ [][delimiters' = delimiters /\ Lang_kotlin' = Lang_kotlin]_vars
    /\ [](run = "second" =>
            delimiters = init_delimiters /\ Lang_kotlin = KotlinLangType)
    /\ []((run = "second" /\ pc = "done" /\ input = prev_input) =>
            tags = prev_tags)

\* `fun <T : Comparable<T>> max(a: T)` has been read twice and has yielded
\* its tag twice.
C14_Witness ==
    /\ run = "second" /\ pc = "done"
    /\ input = InFunComparable /\ prev_input = input
    /\ Len(tags) = 1 /\ tags = prev_tags

\* ------------------------------------------------------------ C15

\* The four counters of skip_open_close: parentheses, braces, square
\* brackets, angle brackets.
Counters(k) == <<k.pars, k.curly, k.square, k.arrows>>

\* What consuming the character ch adds to the four counters.
Delta(ch) ==
    CASE ch = "(" -> <<1, 0, 0, 0>>  [] ch = ")" -> <<-1, 0, 0, 0>>
      [] ch = "{" -> <<0, 1, 0, 0>>  [] ch = "}" -> <<0, -1, 0, 0>>
      [] ch = "[" -> <<0, 0, 1, 0>>  [] ch = "]" -> <<0, 0, -1, 0>>
      [] ch = "<" -> <<0, 0, 0, 1>>  [] ch = ">" -> <<0, 0, 0, -1>>
      [] OTHER -> <<0, 0, 0, 0>>

\* The counters k after the character ch has been counted.
Counted(k, ch) == [i \in 1..4 |-> Counters(k)[i] + Delta(ch)[i]]

\* C15: skip_open_close returns only when the source has yielded
\* end-of-input, or when it has just consumed a character equal to
\* expected_close that leaves all four counters zero; it consumes nothing
\* beyond that character.
C15_ReturnsOnlyClosed ==
    [][(pc # "fun_name" /\ pc' = "fun_name") =>
        /\ pc = "open_close" /\ src.unget = <<>>
        /\ \/ src.pos > Len(input) /\ src' = src
           \/ /\ src.pos <= Len(input)
              /\ input[src.pos] = sk.expected_close
              /\ Counted(sk, input[src.pos]) = <<0, 0, 0, 0>>
              /\ src' = [pos |-> src.pos + 1, unget |-> <<>>]]_vars

\* skip_open_close has returned at a '>' after an inner pair of angle
\* brackets.
C15_Witness ==
    /\ pc = "fun_name" /\ src.pos <= Len(input) /\ src.pos > 8
    /\ input[src.pos - 1] = ">"
    /\ \E i \in 6..(src.pos - 2) : \E j \in (i + 1)..(src.pos - 2) :
            input[i] = "<" /\ input[j] = ">"

\* ------------------------------------------------------------ C16

\* The source s stands at the start of a line, or at the end of the input.
AtLineStart(s) ==
    \/ s.pos > Len(input) /\ \A i \in 1..Len(s.unget) : s.unget[i] = EOF
    \/ s.unget = <<>> /\ s.pos > 1 /\ input[s.pos - 1] = "\n"

RECURSIVE AfterTokens(_, _)
\* The source s after n calls of parse_token.
AfterTokens(s, n) ==
    IF n = 0 THEN s ELSE AfterTokens(With(LAMBDA p : p.s, parse_token(s)), n - 1)

\* The keywords the driver has no branch for.
OtherKeywords ==
    {"keyword_package", "keyword_import", "keyword_val", "keyword_var",
     "modifier_enum"}

\* The step ends the fun branch.
FunBranchEnds ==
    \/ Dispatches({"keyword_fun"}) /\ pc' = "loop"
    \/ pc = "fun_name" /\ pc' = "loop"

\* C16: after the class, interface and object branch, the const branch and
\* any other non-modifier keyword, and after a fun that yields no tag, the
\* rest of the line is discarded up to and including its newline; after a
\* typealias tag and after a function tag nothing is discarded, the source
\* standing right after the tokens read; `enum class Color` emits nothing.
C16_RecoveryAsymmetry ==
    /\ [][Dispatches(ClassKeywords \cup {"modifier_const"} \cup OtherKeywords)
            => AtLineStart(src')]_vars
    /\ [][(FunBranchEnds /\ tags' = tags) => AtLineStart(src')]_vars
    /\ [][((FunBranchEnds \/ Dispatches({"keyword_typealias"})) /\ tags' # tags)
            => src' = AfterTokens(src, ntok' - ntok)]_vars
    /\ []((input = InEnumClassColor /\ pc = "done") => tags = <<>>)

\* ------------------------------------------------------------ C17

\* C17: at most one character is pending in the pushback buffer, in every
\* state and after each of the parse_token calls the next step of the driver
\* makes (it makes at most three), so that no two pushbacks follow each
\* other without a read between them.
C17_OnePending ==
    /\ Len(src.unget) <= 1
    /\ pc \in {"loop", "fun_name"} =>
            \A n \in 1..3 : Len(AfterTokens(src, n).unget) <= 1

\* A character is pending: the lexer has pushed back the one after a '/'.
C17_Witness ==
    /\ Len(src.unget) = 1 /\ src.unget[1] # EOF
    /\ src.pos > 2 /\ input[src.pos - 2] = "/" /\ input[src.pos - 1] = src.unget[1]
    /\ t.token = "token_other"

\* ------------------------------------------------------------ C18

\* The place of the first character of the token parse_token reads from the
\* source s: the first that is no whitespace, a pending character being the
\* one the file delivered last.
TokenStart(s) ==
    LET from == IF s.unget = <<>> THEN s.pos ELSE s.pos - 1
    IN  CHOOSE i \in from..Len(input) :
            /\ input[i] \notin Whitespace
            /\ \A j \in from..(i - 1) : input[j] \in Whitespace

\* The number of tokens a step that emits a tag reads before the token that
\* names the tag: the keyword, and `val` or a receiver and its '.'.
TokensBeforeName ==
    (IF pc = "loop" THEN 1 ELSE 0)
        + (IF Dispatches({"modifier_const"}) THEN 1 ELSE 0)
        + (IF /\ Dispatches({"keyword_fun"}) \/ pc = "fun_name"
              /\ sub'.token # "token_par_open"
           THEN 2 ELSE 0)

\* C18: the tag a step emits is placed at the first character of the
\* identifier token that names it, not at the keyword, the receiver or the
\* lookahead token; every tag stands where the input spells its name, with
\* the number of that line.
C18_TagAtNameStart ==
    /\ [](\A i \in 1..Len(tags) :
            /\ tags[i].filePosition >= 1
            /\ SubSeq(input, tags[i].filePosition,
                      tags[i].filePosition + Len(tags[i].name) - 1) = tags[i].name
            /\ tags[i].lineNumber = 1 + NewlinesIn(input, tags[i].filePosition - 1))
    /\ [][(Len(tags') = Len(tags) + 1 /\ run' = run) =>
            tags'[Len(tags')].filePosition =
                TokenStart(AfterTokens(src, TokensBeforeName))]_vars

\* The function h, declared with a receiver on the third line, is tagged at
\* its name.
C18_Witness ==
    \E i \in 1..Len(tags) :
        /\ tags[i].kind = "kind_function" /\ tags[i].name = <<"h">>
        /\ tags[i].lineNumber = 3
        /\ input[tags[i].filePosition - 1] = "."

\* ------------------------------------------------------------ C19

RECURSIVE CommentText(_)
\* The places of the input from place i on that lie inside a comment:
\* between a `//` and the end of its line, or between a `/*` and the first
\* `*/` after it.
CommentText(i) ==
    IF i >= Len(input) THEN {}
    ELSE IF input[i] = "/" /\ input[i + 1] = "/"
         THEN ((i + 2)..(AfterLine(i + 2) - 1)) \cup CommentText(AfterLine(i + 2))
    ELSE IF input[i] = "/" /\ input[i + 1] = "*"
         THEN IF FirstClose(i + 2) = 0 THEN {}
              ELSE ((i + 2)..(FirstClose(i + 2) - 1))
                       \cup CommentText(FirstClose(i + 2) + 2)
    ELSE CommentText(i + 1)

\* C19: text inside comments never produces tags: no tag takes a character
\* of its name from inside a comment, wherever the comment opener stands.
C19_NoTagFromComment ==
    \A i \in 1..Len(tags) :
        \A j \in tags[i].filePosition..(tags[i].filePosition + Len(tags[i].name) - 1) :
            j \notin CommentText(1)

\* ------------------------------------------------------------ C20

RECURSIVE SumDelta(_, _, _)
\* What the characters at places i..j outside the places of skip add to the
\* four counters.
SumDelta(i, j, skip) ==
    IF i > j THEN <<0, 0, 0, 0>>
    ELSE [n \in 1..4 |->
            (IF i \in skip THEN 0 ELSE Delta(input[i])[n])
                + SumDelta(i + 1, j, skip)[n]]

\* C20: inside skip_open_close, entered after the '<' held in t, every
\* bracket consumed so far that lies outside a comment has changed the
\* counter of its kind by one, the character after a '/' that opens no
\* comment included.
C20_EveryBracketCounted ==
    pc = "open_close" =>
        Counters(sk) =
            [n \in 1..4 |->
                Counters(open_close_init(">"))[n]
                    + SumDelta(t.file_position + 1, src.pos - 1, CommentText(1))[n]]

\* ------------------------------------------------------------ C21

\* The keywords that declare: the driver has a tag-emitting branch for each.
DeclKeywords ==
    ClassKeywords \cup {"keyword_typealias", "modifier_const", "keyword_fun"}

\* A declaration keyword is spelled in the input within the places lo..hi.
DeclKeywordWithin(lo, hi) ==
    \E k \in KotlinKeywordTable :
        /\ k.id \in DeclKeywords
        /\ \E j \in lo..hi :
            /\ j + Len(k.name) - 1 <= hi
            /\ Str(SubSeq(input, j, j + Len(k.name) - 1)) = k.name

\* The place after the name of the tag before tag i, 1 for the first tag.
AfterTagBefore(i) ==
    IF i = 1 THEN 1 ELSE tags[i - 1].filePosition + Len(tags[i - 1].name)

\* C21: a step emits at most one tag and only as the dispatch of a
\* declaration keyword, each such keyword yielding at most one; the tags
\* stand in the order of the source, each name after the name before it with
\* a declaration keyword of its own between them, so that there are never
\* more tags than declaration keywords; an input without a declaration
\* keyword, one of whitespace only for example, emits no tag.
C21_OneTagPerKeyword ==
    /\ [][run' = run =>
            /\ Len(tags') \in {Len(tags), Len(tags) + 1}
            /\ SubSeq(tags', 1, Len(tags)) = tags
            /\ tags' # tags => (Dispatches(DeclKeywords) \/ pc = "fun_name")
            /\ (pc = "loop" /\ pc' = "open_close") => tags' = tags]_vars
    /\ [](\A i \in 1..Len(tags) :
            /\ AfterTagBefore(i) <= tags[i].filePosition
            /\ DeclKeywordWithin(AfterTagBefore(i), tags[i].filePosition - 1))
    /\ [](~DeclKeywordWithin(1, Len(input)) => tags = <<>>)

\* A const and a function have been tagged in their order.
C21_Witness ==
    /\ pc = "done" /\ Len(tags) = 2
    /\ tags[1].kind = "kind_const" /\ tags[2].kind = "kind_function"
    /\ tags[1].filePosition < tags[2].filePosition

====
